---- MODULE Spec2Model ----
(***************************************************************************)
(* Analysis-history ledger, session-state lifecycle and analysis pages of  *)
(* the ICC dashboard (src/app.py, src/project_src/utils/session.py,        *)
(* src/project_src/legal_analysis/processor.py, src/test_app.py).          *)
(*                                                                         *)
(* A session state is a function from the keys that are present to their   *)
(* values ("key in st.session_state" is "key \in DOMAIN st").  A history   *)
(* entry is a function from the keys of the stored dict to strings.        *)
(***************************************************************************)
EXTENDS Integers, Sequences, FiniteSets, TLC

VARIABLES
    ss,      \* ss[s]: st.session_state of session s
    now,     \* the local clock, in seconds
    out,     \* what the last step showed, raised and which session it ran in
    calls,   \* calls[s]: log of the add_to_history calls made in session s
    pc,      \* pc[t]: position of worker t inside add_to_history
    targs    \* targs[t]: the arguments worker t was called with

vars == <<ss, now, out, calls, pc, targs>>

----------------------------------------------------------------------------
(* Bounds *)

MaxHist == 3        \* entries per ledger in Spec
MaxClock == 1       \* clock ticks
MaxOpsHist == 2     \* entries recorded per session in SpecOps
MaxIsoHist == 2     \* entries recorded per session in SpecIso
MaxFlowHist == 2    \* ledger length up to which the analysis pages run in SpecFlow

----------------------------------------------------------------------------
(* Python values *)

None == "<None>"          \* Python's None
Missing == "<missing>"    \* an argument the caller did not pass
NoError == "none"         \* the call returned normally

Sessions == {"s1", "s2"}
Workers == {"w1", "w2"}

Pages == <<"Home Page", "AI Data Analysis V1", "AI Data Analysis V2",
           "Legal Analysis", "History">>

PageSet == {Pages[i] : i \in 1..Len(Pages)}

\* truth value of a str-or-None in a Python condition
truthy(v) == v \notin {None, ""}

\* x or y
py_or(x, y) == IF truthy(x) THEN x ELSE y

\* datetime.now().strftime("%Y-%m-%d %H:%M:%S"): seconds to text
strftime(t) == ToString(t)

Restrict(f, S) == [k \in S |-> f[k]]

----------------------------------------------------------------------------
(* st.session_state *)

EmptyState == [k \in {} |-> None]

Has(st, k) == k \in DOMAIN st

Set(st, k, v) == [x \in DOMAIN st \cup {k} |-> IF x = k THEN v ELSE st[x]]

Del(st, K) == Restrict(st, DOMAIN st \ K)

Hist(st) == IF Has(st, "history") THEN st["history"] ELSE <<>>

NoneKeys ==
    {"openai_api_key", "qdrant_api_key", "qdrant_url", "vector_db",
     "legal_team", "knowledge_base", "df", "df_origin", "data_agent",
     "analysis_mode", "target_Y", "contain_null", "all_numeric",
     "to_perform_pca", "model_list", "model1", "model2", "model3",
     "filled_df", "encoded_df", "df_cleaned1", "df_cleaned2", "df_pca"}

FalseKeys == {"target_selected", "start_training", "button_clicked"}

DefaultKeys == NoneKeys \cup FalseKeys \cup {"history", "current_page", "initialized"}

Default(k) ==
    CASE k \in NoneKeys -> None
      [] k \in FalseKeys -> FALSE
      [] k = "history" -> <<>>
      [] k = "current_page" -> "Home Page"
      [] k = "initialized" -> TRUE

init_session_state_overwrite(st) ==
    [k \in DOMAIN st \cup DefaultKeys |->
        IF k \in DefaultKeys THEN Default(k) ELSE st[k]]

\* every "if key not in st.session_state: st.session_state.key = default"
init_session_state(st) ==
    [k \in DOMAIN st \cup DefaultKeys |->
        IF k \in DOMAIN st THEN st[k] ELSE Default(k)]

clear_session_keep(st) == init_session_state(st)

clear_session(st) == init_session_state(Del(st, DOMAIN st))

ModelVars == {"model_list", "model1", "model2", "model3",
              "start_training", "button_clicked"}

DataVars == {"df", "df_origin", "filled_df", "encoded_df",
             "df_cleaned1", "df_cleaned2", "df_pca"}

reset_model_state_all(st) == Del(st, ModelVars \cup DataVars)

reset_model_state(st) == Del(st, ModelVars)

reset_data_state(st) == Del(st, DataVars)

----------------------------------------------------------------------------
(* add_to_history: arguments and the entry each definition builds *)

ArgNames == {"entry_type", "filename", "file_name", "file_type", "model",
             "analysis_type", "query", "response"}

OptFields == {"file_type", "model", "analysis_type", "query", "response"}

NoArgs == [p \in ArgNames |-> Missing]

With(a, p, v) == [a EXCEPT ![p] = v]

\* signatures: the parameters each definition declares and the required ones
ParamsApp == ArgNames
RequiredApp == {}
ParamsSession == {"entry_type", "file_name", "analysis_type", "query", "response"}
RequiredSession == {"entry_type", "file_name"}
ParamsTest == {"entry_type", "filename", "model", "analysis_type"}
RequiredTest == ParamsTest

\* the call binds: no unexpected keyword, no required argument left out
binds(a, params, required) ==
    /\ \A p \in ArgNames \ params : a[p] = Missing
    /\ \A p \in required : a[p] # Missing

DefaultArg(p) == IF p = "entry_type" THEN "Data Analysis" ELSE None

\* app.py: every parameter has a default
bind_app(a) == [p \in ArgNames |-> IF a[p] = Missing THEN DefaultArg(p) ELSE a[p]]

\* session.py: the optional parameters default to None
bind_session(a) == [p \in ParamsSession |-> IF a[p] = Missing THEN None ELSE a[p]]

drop_falsy(e) == Restrict(e, {k \in DOMAIN e : truthy(e[k])})

\* {k: v for k, v in entry.items() if v is not None}
drop_none(e) == Restrict(e, {k \in DOMAIN e : e[k] # None})

AppEntryKeys == {"timestamp", "type", "file", "file_type", "model",
                 "analysis_type", "query", "response"}

app_entry(b, t) ==
    drop_none([k \in AppEntryKeys |->
        CASE k = "timestamp" -> strftime(t)
          [] k = "type" -> b["entry_type"]
          [] k = "file" -> py_or(b["filename"], b["file_name"])
          [] OTHER -> b[k]])

SessionEntryKeys == {"timestamp", "type", "file", "analysis_type", "query", "response"}

session_entry(b, t) ==
    [k \in SessionEntryKeys |->
        CASE k = "timestamp" -> strftime(t)
          [] k = "type" -> b["entry_type"]
          [] k = "file" -> b["file_name"]
          [] OTHER -> b[k]]

replace_last(h, e) == IF h = <<>> THEN <<e>> ELSE [h EXCEPT ![Len(h)] = e]

\* st.session_state.history.append(entry)
list_append(h, e) == Append(h, e)

\* if 'history' not in st.session_state: st.session_state.history = []
lazy_history(st) == IF Has(st, "history") THEN st ELSE Set(st, "history", <<>>)

add_to_history_app_init(st, b, t) ==
    LET st1 == init_session_state(st)
    IN  Set(st1, "history", list_append(st1["history"], app_entry(b, t)))

\* app.py add_to_history, bound arguments b, clock t
add_to_history_app(st, b, t) ==
    LET st1 == lazy_history(st)
    IN  Set(st1, "history", list_append(st1["history"], app_entry(b, t)))

\* utils/session.py add_to_history
add_to_history_session(st, b, t) ==
    LET st1 == lazy_history(st)
    IN  Set(st1, "history", list_append(st1["history"], session_entry(b, t)))

\* test_app.py add_to_history: the file imports neither st nor datetime, so
\* the first statement of the body raises NameError and nothing is stored
add_to_history_test(st, a) ==
    [st |-> st,
     raised |-> IF binds(a, ParamsTest, RequiredTest) THEN "NameError" ELSE "TypeError"]

----------------------------------------------------------------------------
(* display_history *)

identity_order(h) == h

\* reversed(st.session_state.history)
reversed(h) == [i \in 1..Len(h) |-> h[Len(h) + 1 - i]]

\* number of entries of it rendered before entry[k] raises KeyError for a
\* key of need that the entry lacks
rendered_count(it, need) ==
    IF \E i \in 1..Len(it) : ~(need \subseteq DOMAIN it[i])
    THEN (CHOOSE i \in 1..Len(it) :
             /\ ~(need \subseteq DOMAIN it[i])
             /\ \A j \in 1..(i - 1) : need \subseteq DOMAIN it[j]) - 1
    ELSE Len(it)

Listing(it, need) ==
    LET n == rendered_count(it, need)
    IN  [iterated |-> it,
         rendered |-> SubSeq(it, 1, n),
         raised |-> IF n < Len(it) THEN "KeyError" ELSE NoError]

NoListing == [iterated |-> <<>>, rendered |-> <<>>, raised |-> NoError]

\* keys read with entry[...] (entry.get(...) never raises)
NeedApp == {"timestamp", "file"}
NeedSession == {"timestamp", "type", "file", "analysis_type", "query", "response"}

display_history_app_unguarded(st) ==
    IF ~Has(st, "history")
    THEN [iterated |-> <<>>, rendered |-> <<>>, raised |-> "AttributeError"]
    ELSE Listing(reversed(st["history"]), NeedApp)

\* app.py display_history
display_history_app(st) ==
    IF Has(st, "history") /\ st["history"] # <<>>
    THEN Listing(reversed(st["history"]), NeedApp)
    ELSE NoListing

\* utils/session.py display_history
display_history_session(st) ==
    IF ~Has(st, "history") \/ st["history"] = <<>>
    THEN NoListing
    ELSE Listing(reversed(st["history"]), NeedSession)

----------------------------------------------------------------------------
(* The analysis pages: an uploaded file is its name, its size in bytes and
   whether its content parses; the outcome of an analysis backend call is
   "ok", "raises" or "stopped" (the run ended while the call was pending) *)

\* st.file_uploader returned None
NoUpload == [none |-> TRUE, name |-> "", size |-> 0, readable |-> FALSE]

Upload(n, b, r) == [none |-> FALSE, name |-> n, size |-> b, readable |-> r]

\* what a page body reports of its run
PageResult(st, dispatched, backend, ret, raised) ==
    [st |-> st, dispatched |-> dispatched, backend |-> backend, ret |-> ret,
     raised |-> raised]

\* util.read_file_from_streamlit of a file that parses; stores tells whether
\* the call leaves the file's name in st.session_state.uploaded_filename
read_file_from_streamlit(st, f, stores) ==
    IF stores THEN Set(st, "uploaded_filename", f.name) ELSE st

\* display_data_analysis, the uploader block; returned is the early return
upload_block(st, f, stores) ==
    IF f.none THEN [st |-> st, returned |-> FALSE]
    ELSE IF f.size > 0
         THEN IF f.readable
              THEN [st |-> Set(Set(read_file_from_streamlit(st, f, stores),
                                   "DF_uploaded", f.name),
                               "is_file_empty", FALSE),
                    returned |-> FALSE]
              ELSE [st |-> Set(st, "is_file_empty", TRUE), returned |-> TRUE]
         ELSE [st |-> Set(st, "is_file_empty", TRUE), returned |-> TRUE]

\* st.session_state.get('is_file_empty', True)
is_file_empty(st) == IF Has(st, "is_file_empty") THEN st["is_file_empty"] ELSE TRUE

is_proceed_enabled(st, f) == ~f.none /\ ~is_file_empty(st)

\* the Start Analysis button is on the page and not disabled
start_enabled(st, f) ==
    LET u == upload_block(st, f, FALSE)
    IN  /\ ~u.returned
        /\ is_proceed_enabled(u.st, f)
        /\ ~(Has(u.st, "button_clicked") /\ u.st["button_clicked"])

V2Args(st) ==
    With(With(With(With(NoArgs, "entry_type", "Data Analysis"),
        "filename", st["uploaded_filename"]),
        "model", "GPT-4-Turbo"),
        "analysis_type", "Predictive Classification")

\* app.py display_data_analysis: the uploader, the Start Analysis button and
\* the analysis block; the entry is recorded before the pipeline is called
display_data_analysis(st, f, stores, start, backend, t) ==
    LET u == upload_block(st, f, stores)
        st1 == IF Has(u.st, "button_clicked") THEN u.st
               ELSE Set(u.st, "button_clicked", FALSE)
        st2 == IF start THEN Set(st1, "button_clicked", TRUE) ELSE st1
        runs == st2["button_clicked"] /\ Has(st2, "DF_uploaded")
        st3 == IF runs /\ Has(st2, "uploaded_filename")
               THEN add_to_history_app(st2, bind_app(V2Args(st2)), t)
               ELSE st2
    IN  IF u.returned THEN PageResult(u.st, FALSE, "none", FALSE, NoError)
        ELSE PageResult(st3, runs, IF runs THEN backend ELSE "none", FALSE, NoError)

CsvArgs(f) ==
    With(With(With(With(With(NoArgs, "file_name", f.name), "file_type", "CSV"),
        "analysis_type", "Data Analysis"), "query", "trend?"),
        "response", "rising")

\* app.py main, the V1 page: process_csv when a file is in the uploader
process_csv(st, f, analyze, backend, t) ==
    IF f.none THEN PageResult(st, FALSE, "none", FALSE, NoError)
    ELSE IF ~f.readable THEN PageResult(st, FALSE, "none", FALSE, "ParserError")
    ELSE IF ~analyze THEN PageResult(st, FALSE, "none", FALSE, NoError)
    ELSE IF backend = "ok"
         THEN PageResult(add_to_history_app(st, bind_app(CsvArgs(f)), t),
                         TRUE, backend, FALSE, NoError)
         ELSE PageResult(st, TRUE, backend, FALSE, NoError)

\* session.py init_qdrant: every exception is caught and None returned;
\* connects tells whether Qdrant(...) returns a client
init_qdrant(st, connects) ==
    IF ~truthy(st["qdrant_api_key"]) \/ ~truthy(st["qdrant_url"]) THEN None
    ELSE IF connects THEN "Qdrant" ELSE None

\* app.py setup_qdrant; env is what os.getenv gives for QDRANT_API_KEY and
\* QDRANT_URL (and OPENAI_API_KEY)
setup_qdrant(st, env) ==
    IF truthy(env.key) /\ truthy(env.url)
    THEN LET st1 == Set(Set(st, "qdrant_api_key", env.key), "qdrant_url", env.url)
         IN  [st |-> Set(st1, "vector_db", init_qdrant(st1, env.connects)),
              ret |-> TRUE]
    ELSE [st |-> st, ret |-> FALSE]

LegalArgs(f, response) ==
    With(With(With(With(With(NoArgs, "entry_type", "Legal Analysis"),
        "file_name", f.name), "analysis_type", "Contract Review"),
        "query", None), "response", response)

\* app.py main, the Legal Analysis page; processed is the outcome of
\* DocumentProcessor.process_document
legal_analysis(st, f, env, processed, start, backend, t) ==
    IF f.none THEN PageResult(st, FALSE, "none", FALSE, NoError)
    ELSE IF ~truthy(env.openai) THEN PageResult(st, FALSE, "none", FALSE, NoError)
    ELSE LET q == setup_qdrant(st, env)
             st1 == Set(Set(q.st, "knowledge_base", "kb"), "legal_team", "team")
         IN  IF ~q.ret THEN PageResult(q.st, FALSE, "none", FALSE, NoError)
             ELSE IF processed # "ok" THEN PageResult(q.st, FALSE, "none", TRUE, NoError)
             ELSE IF ~start THEN PageResult(st1, FALSE, "none", TRUE, NoError)
             ELSE IF backend = "ok"
                  THEN PageResult(add_to_history_app(st1,
                                      bind_app(LegalArgs(f, "Key terms")), t),
                                  TRUE, backend, TRUE, NoError)
                  ELSE PageResult(st1, TRUE, backend, TRUE, NoError)

----------------------------------------------------------------------------
(* main: one script run *)

WelcomeText == "welcome"

\* lottie_url1, lottie_url2 = load_lottie(), once per session
load_lottie_once(x) ==
    IF Has(x, "lottie") THEN x
    ELSE Set(Set(Set(x, "lottie_url1", "lottie1"), "lottie_url2", "lottie2"),
             "lottie", TRUE)

display_home_page_noflag(st) ==
    LET st1 == IF Has(st, "initialized") THEN st ELSE Set(st, "initialized", TRUE)
    IN  IF st1["initialized"]
        THEN [st |-> load_lottie_once(Set(st1, "welcome_message", WelcomeText)),
              welcome |-> "streamed", raised |-> NoError]
        ELSE IF Has(st1, "welcome_message")
             THEN [st |-> load_lottie_once(st1), welcome |-> "static",
                   raised |-> NoError]
             ELSE [st |-> st1, welcome |-> "none", raised |-> "AttributeError"]

\* app.py display_home_page; welcome tells whether the message was streamed
\* (stream_data) or written as it is
display_home_page(st) ==
    LET st1 == IF Has(st, "initialized") THEN st ELSE Set(st, "initialized", TRUE)
    IN  IF st1["initialized"]
        THEN [st |-> load_lottie_once(Set(Set(st1, "welcome_message", WelcomeText),
                                          "initialized", FALSE)),
              welcome |-> "streamed", raised |-> NoError]
        ELSE IF Has(st1, "welcome_message")
             THEN [st |-> load_lottie_once(st1), welcome |-> "static",
                   raised |-> NoError]
             ELSE [st |-> st1, welcome |-> "none", raised |-> "AttributeError"]

\* app.py display_data_analysis in a run with no file in the uploader: the
\* Start Analysis button is disabled, the pipeline runs when button_clicked
\* was left True by an earlier run
display_data_analysis_nofile(st, t) ==
    display_data_analysis(st, NoUpload, FALSE, FALSE, "ok", t).st

\* the page body of main for the page in current_page
render_page(st, t) ==
    LET page == st["current_page"]
    IN  CASE page = "Home Page" ->
               LET r == display_home_page(st)
               IN  [st |-> r.st, listed |-> FALSE, listing |-> NoListing,
                    welcome |-> r.welcome, dispatched |-> FALSE,
                    raised |-> r.raised]
          [] page = "AI Data Analysis V2" ->
               [st |-> display_data_analysis_nofile(st, t), listed |-> FALSE,
                listing |-> NoListing, welcome |-> "none",
                dispatched |->
                    display_data_analysis(st, NoUpload, FALSE, FALSE, "ok", t).dispatched,
                raised |-> NoError]
          [] page = "History" ->
               LET l == display_history_app(st)
               IN  [st |-> st, listed |-> TRUE, listing |-> l, welcome |-> "none",
                    dispatched |-> FALSE, raised |-> l.raised]
          [] OTHER ->
               [st |-> st, listed |-> FALSE, listing |-> NoListing,
                welcome |-> "none", dispatched |-> FALSE, raised |-> NoError]

NoClick == "<no click>"

\* app.py main: defaults, the sidebar (a click sets current_page and
\* st.rerun() starts the script again), then the page body
main(st, click, t) ==
    LET st1 == IF Has(st, "current_page") THEN st ELSE Set(st, "current_page", "Home Page")
        st2 == init_session_state(st1)
        st3 == IF click = NoClick THEN st2 ELSE Set(st2, "current_page", click)
    IN  render_page(init_session_state(st3), t)

----------------------------------------------------------------------------
(* Steps *)

NoOut == [op |-> "none", src |-> "", s |-> "", args |-> NoArgs, listed |-> FALSE,
          iterated |-> <<>>, rendered |-> <<>>, raised |-> NoError,
          welcome |-> "none", page |-> "", file |-> NoUpload, start |-> FALSE,
          backend |-> "none", dispatched |-> FALSE, ret |-> FALSE]

Quiet(op, s) == [NoOut EXCEPT !.op = op, !.s = s]

Called(src, s, a, raised) ==
    [NoOut EXCEPT !.op = "add_to_history", !.src = src, !.s = s, !.args = a,
                  !.raised = raised]

Shown(op, src, s, l) ==
    [NoOut EXCEPT !.op = op, !.src = src, !.s = s, !.listed = TRUE,
                  !.iterated = l.iterated, !.rendered = l.rendered,
                  !.raised = l.raised]

session_store_shared(all, s, st) == [x \in Sessions |-> st]

\* st.session_state is the state of the session the script runs in
session_store(all, s, st) == [all EXCEPT ![s] = st]

\* the calls that returned, with the clock they ran at
Logged(s, src, a) ==
    [calls EXCEPT ![s] = Append(@, [src |-> src, args |-> a, time |-> now])]

Idle == UNCHANGED <<pc, targs>>

Tick ==
    /\ now < MaxClock
    /\ now' = now + 1
    /\ out' = Quiet("tick", "")
    /\ UNCHANGED <<ss, calls>>
    /\ Idle

InitSessionState(s) ==
    /\ ss' = session_store(ss, s, init_session_state(ss[s]))
    /\ out' = Quiet("init_session_state", s)
    /\ UNCHANGED <<now, calls>>
    /\ Idle

ClearSession(s) ==
    /\ ss' = session_store(ss, s, clear_session(ss[s]))
    /\ out' = Quiet("clear_session", s)
    /\ UNCHANGED <<now, calls>>
    /\ Idle

ResetModelState(s) ==
    /\ ss' = session_store(ss, s, reset_model_state(ss[s]))
    /\ out' = Quiet("reset_model_state", s)
    /\ UNCHANGED <<now, calls>>
    /\ Idle

ResetDataState(s) ==
    /\ ss' = session_store(ss, s, reset_data_state(ss[s]))
    /\ out' = Quiet("reset_data_state", s)
    /\ UNCHANGED <<now, calls>>
    /\ Idle

AddToHistoryApp(s, a) ==
    /\ ss' = session_store(ss, s, add_to_history_app(ss[s], bind_app(a), now))
    /\ calls' = Logged(s, "app", a)
    /\ out' = Called("app", s, a, NoError)
    /\ UNCHANGED now
    /\ Idle

AddToHistorySession(s, a) ==
    /\ IF binds(a, ParamsSession, RequiredSession)
       THEN /\ ss' = session_store(ss, s,
                         add_to_history_session(ss[s], bind_session(a), now))
            /\ calls' = Logged(s, "session", a)
            /\ out' = Called("session", s, a, NoError)
       ELSE /\ out' = Called("session", s, a, "TypeError")
            /\ UNCHANGED <<ss, calls>>
    /\ UNCHANGED now
    /\ Idle

AddToHistoryTest(s, a) ==
    LET r == add_to_history_test(ss[s], a)
    IN  /\ ss' = session_store(ss, s, r.st)
        /\ out' = Called("test", s, a, r.raised)
        /\ UNCHANGED <<now, calls>>
        /\ Idle

DisplayHistoryApp(s) ==
    /\ out' = Shown("display_history", "app", s, display_history_app(ss[s]))
    /\ UNCHANGED <<ss, now, calls>>
    /\ Idle

DisplayHistorySession(s) ==
    /\ out' = Shown("display_history", "session", s, display_history_session(ss[s]))
    /\ UNCHANGED <<ss, now, calls>>
    /\ Idle

\* one run of the script; click is the sidebar button pressed, if any
MainRun(s, click) ==
    LET r == main(ss[s], click, now)
    IN  /\ ss' = session_store(ss, s, r.st)
        /\ out' = [NoOut EXCEPT !.op = "main", !.src = "app", !.s = s,
                                !.listed = r.listed, !.welcome = r.welcome,
                                !.page = r.st["current_page"],
                                !.dispatched = r.dispatched,
                                !.backend = IF r.dispatched THEN "ok" ELSE "none",
                                !.iterated = r.listing.iterated,
                                !.rendered = r.listing.rendered,
                                !.raised = r.raised]
        /\ UNCHANGED <<now, calls>>
        /\ Idle

OnPage(s, page) == Has(ss[s], "current_page") /\ ss[s]["current_page"] = page

PageRun(s, f, start, r) ==
    /\ ss' = session_store(ss, s, r.st)
    /\ out' = [NoOut EXCEPT !.op = "main", !.src = "app", !.s = s,
                            !.page = r.st["current_page"], !.file = f,
                            !.start = start, !.dispatched = r.dispatched,
                            !.backend = r.backend, !.ret = r.ret,
                            !.raised = r.raised]
    /\ UNCHANGED <<now, calls>>
    /\ Idle

\* a run of the script on the V1 page with f in its uploader
V1Run(s, f, analyze, backend) ==
    /\ OnPage(s, "AI Data Analysis V1")
    /\ analyze => (~f.none /\ f.readable)
    /\ PageRun(s, f, analyze,
               process_csv(init_session_state(ss[s]), f, analyze, backend, now))

\* a run of the script on the V2 page with f in its uploader
V2Run(s, f, stores, start, backend) ==
    /\ OnPage(s, "AI Data Analysis V2")
    /\ start => start_enabled(init_session_state(ss[s]), f)
    /\ PageRun(s, f, start,
               display_data_analysis(init_session_state(ss[s]), f, stores, start,
                                     backend, now))

\* a run of the script on the Legal Analysis page with f in its uploader
LegalRun(s, f, env, processed, start, backend) ==
    /\ OnPage(s, "Legal Analysis")
    /\ start => (~f.none /\ truthy(env.openai) /\ setup_qdrant(ss[s], env).ret
                 /\ processed = "ok")
    /\ PageRun(s, f, start,
               legal_analysis(init_session_state(ss[s]), f, env, processed, start,
                              backend, now))

----------------------------------------------------------------------------
(* Inputs *)

\* the call shapes of the ledger's callers and of the specification's examples
ShapeA == With(With(NoArgs, "entry_type", "A"), "file_name", "sales.csv")

ShapeB ==
    With(With(With(With(With(NoArgs, "entry_type", "B"), "file_name", "contract.pdf"),
        "analysis_type", "Contract Review"), "query", None), "response", "Key terms")

ShapeC ==
    With(With(With(With(NoArgs, "entry_type", "C"), "filename", "data.csv"),
        "model", "GPT-4-Turbo"), "analysis_type", "Clustering Model")

ShapeBare == NoArgs

CallShapes == {ShapeA, ShapeB, ShapeC, ShapeBare}

SessionShapes == {ShapeB, ShapeBare}

TestShapes == {ShapeC, ShapeBare}

Init ==
    /\ ss = [s \in Sessions |-> EmptyState]
    /\ now = 0
    /\ out = NoOut
    /\ calls = [s \in Sessions |-> <<>>]
    /\ pc = [t \in Workers |-> "idle"]
    /\ targs = [t \in Workers |-> NoArgs]

CanCall(s, n) == Len(calls[s]) < n

----------------------------------------------------------------------------
(* Spec: the ledger of one session under add_to_history and display_history *)

Next ==
    \/ Tick
    \/ InitSessionState("s1")
    \/ \E a \in CallShapes : CanCall("s1", MaxHist) /\ AddToHistoryApp("s1", a)
    \/ \E a \in SessionShapes : CanCall("s1", MaxHist) /\ AddToHistorySession("s1", a)
    \/ \E a \in TestShapes : AddToHistoryTest("s1", a)
    \/ DisplayHistoryApp("s1")
    \/ DisplayHistorySession("s1")

Spec == Init /\ [][Next]_vars

----------------------------------------------------------------------------
(* SpecOps: every session-state operation on one session *)

OpsShapes == {ShapeA, ShapeBare}

NextOps ==
    \/ InitSessionState("s1")
    \/ ClearSession("s1")
    \/ ResetModelState("s1")
    \/ ResetDataState("s1")
    \/ \E a \in OpsShapes : CanCall("s1", MaxOpsHist) /\ AddToHistoryApp("s1", a)
    \/ DisplayHistoryApp("s1")
    \/ \E p \in PageSet \cup {NoClick} : MainRun("s1", p)

SpecOps == Init /\ [][NextOps]_vars

----------------------------------------------------------------------------
(* SpecEntry: the entry app.py add_to_history stores, for every combination
   of arguments, as the first call of a session *)

TypeValues == {Missing, None, "Legal Analysis"}
FileValues == {Missing, "", "contract.pdf"}
OptValues == {Missing, None, "", "x"}

ArgsOf(ty, f1, f2, o) ==
    [p \in ArgNames |->
        CASE p = "entry_type" -> ty
          [] p = "filename" -> f1
          [] p = "file_name" -> f2
          [] OTHER -> o[p]]

NextEntry ==
    \/ Tick
    \/ InitSessionState("s1")
    \/ /\ calls["s1"] = <<>>
       /\ \E ty \in TypeValues, f1 \in FileValues, f2 \in FileValues,
             o \in [OptFields -> OptValues] :
             AddToHistoryApp("s1", ArgsOf(ty, f1, f2, o))

SpecEntry == Init /\ [][NextEntry]_vars

----------------------------------------------------------------------------
(* SpecIso: two sessions, each recording its own files *)

IsoShapes(s) == IF s = "s1" THEN {ShapeA, ShapeC} ELSE {ShapeB}

NextIso ==
    \E s \in Sessions :
        \/ InitSessionState(s)
        \/ ClearSession(s)
        \/ \E a \in IsoShapes(s) : CanCall(s, MaxIsoHist) /\ AddToHistoryApp(s, a)
        \/ DisplayHistoryApp(s)

SpecIso == Init /\ [][NextIso]_vars

----------------------------------------------------------------------------
(* SpecRace: two workers inside app.py add_to_history on one session whose
   ledger does not exist yet, interleaved statement by statement *)

Still == UNCHANGED <<now, calls>>

\* the call is made
RaceCall(t, a) ==
    /\ pc[t] = "idle"
    /\ pc' = [pc EXCEPT ![t] = "check"]
    /\ targs' = [targs EXCEPT ![t] = a]
    /\ out' = Quiet("call", "s1")
    /\ UNCHANGED ss
    /\ Still

\* if 'history' not in st.session_state:
RaceCheck(t) ==
    /\ pc[t] = "check"
    /\ pc' = [pc EXCEPT ![t] = IF Has(ss["s1"], "history") THEN "append" ELSE "create"]
    /\ out' = Quiet("check", "s1")
    /\ UNCHANGED <<ss, targs>>
    /\ Still

\*     st.session_state.history = []
RaceCreate(t) ==
    /\ pc[t] = "create"
    /\ ss' = session_store(ss, "s1", Set(ss["s1"], "history", <<>>))
    /\ pc' = [pc EXCEPT ![t] = "append"]
    /\ out' = Quiet("create", "s1")
    /\ UNCHANGED targs
    /\ Still

\* entry = {...}; st.session_state.history.append(entry)
RaceAppend(t) ==
    /\ pc[t] = "append"
    /\ ss' = session_store(ss, "s1",
                 Set(ss["s1"], "history",
                     list_append(ss["s1"]["history"], app_entry(bind_app(targs[t]), now))))
    /\ calls' = Logged("s1", "app", targs[t])
    /\ pc' = [pc EXCEPT ![t] = "done"]
    /\ out' = Called("app", "s1", targs[t], NoError)
    /\ UNCHANGED <<now, targs>>

NextRace ==
    \/ Tick
    \/ \E t \in Workers, a \in CallShapes : RaceCall(t, a)
    \/ \E t \in Workers : RaceCheck(t)
    \/ \E t \in Workers : RaceCreate(t)
    \/ \E t \in Workers : RaceAppend(t)

SpecRace == Init /\ [][NextRace]_vars

----------------------------------------------------------------------------
(* DocumentProcessor.validate_pdf: a file name is the sequence of its
   characters, a size is a number of bytes *)

UpperCase == <<"A", "B", "C", "D", "F", "P", "S", "T", "V", "X">>

LowerCase == <<"a", "b", "c", "d", "f", "p", "s", "t", "v", "x">>

\* str.lower() on one character
lower_char(c) ==
    IF \E i \in 1..Len(UpperCase) : UpperCase[i] = c
    THEN LowerCase[CHOOSE i \in 1..Len(UpperCase) : UpperCase[i] = c]
    ELSE c

\* str.lower()
lower(w) == [i \in 1..Len(w) |-> lower_char(w[i])]

\* name.split('.')[-1]: what follows the last dot, the whole name without one
RECURSIVE last_piece(_)
last_piece(n) ==
    IF n = <<>> THEN <<>>
    ELSE IF n[Len(n)] = "." THEN <<>>
    ELSE Append(last_piece(SubSeq(n, 1, Len(n) - 1)), n[Len(n)])

\* uploaded_file is None
NoPdf == [none |-> TRUE, name |-> <<>>, size |-> 0]

PdfFile(n, b) == [none |-> FALSE, name |-> n, size |-> b]

\* 10 * 1024 * 1024 bytes
MaxPdfSize == 10 * 1024 * 1024

\* processor.py DocumentProcessor.validate_pdf
validate_pdf(f) ==
    IF f.none THEN FALSE
    ELSE IF lower(last_piece(f.name)) # <<"p", "d", "f">> THEN FALSE
    ELSE IF f.size > MaxPdfSize THEN FALSE
    ELSE TRUE

ValidatePdf(f) ==
    /\ out' = [NoOut EXCEPT !.op = "validate_pdf", !.file = f,
                            !.ret = validate_pdf(f)]
    /\ UNCHANGED <<ss, now, calls>>
    /\ Idle

----------------------------------------------------------------------------
(* SpecPdf: validate_pdf on names with and without the pdf extension and on
   sizes around the limit *)

PdfNames ==
    {<<"a", ".", "p", "d", "f">>, <<"a", ".", "P", "D", "F">>,
     <<"a", ".", "P", "d", "f">>, <<"a", ".", "b", ".", "p", "d", "f">>,
     <<"p", "d", "f">>, <<".", "p", "d", "f">>,
     <<"a", ".", "p", "d", "f", ".", "t", "x", "t">>, <<"a", ".", "t", "x", "t">>,
     <<"a", "p", "d", "f">>, <<"a", ".", "p", "d", "f", "x">>,
     <<"a", ".", "x", "p", "d", "f">>, <<"a", ".", "p", "d">>, <<"a", ".">>, <<>>}

PdfSizes ==
    {0, 1, 1024 * 1024, MaxPdfSize - 1, MaxPdfSize, MaxPdfSize + 1,
     11 * 1024 * 1024, 20 * 1024 * 1024}

PdfInputs == {NoPdf} \cup {PdfFile(n, b) : n \in PdfNames, b \in PdfSizes}

NextPdf == \E f \in PdfInputs : ValidatePdf(f)

SpecPdf == Init /\ [][NextPdf]_vars

----------------------------------------------------------------------------
(* SpecFlow: one session moving between the pages, uploading and removing
   files, pressing the analysis buttons, with every backend outcome *)

Outcomes == {"ok", "raises", "stopped"}

CsvFiles ==
    {NoUpload, Upload("sales.csv", 1, TRUE), Upload("empty.csv", 0, TRUE),
     Upload("broken.csv", 1, FALSE)}

PdfUploads == {NoUpload, Upload("contract.pdf", 1, TRUE)}

Envs ==
    {[openai |-> o, key |-> k, url |-> u, connects |-> c] :
        o \in {"", "sk"}, k \in {"", "qk"}, u \in {"", "https://q"},
        c \in BOOLEAN}

CanRecord(s) == Len(Hist(ss[s])) < MaxFlowHist

NextFlow ==
    \/ /\ CanRecord("s1")
       /\ \E p \in PageSet : MainRun("s1", p)
    \/ ResetModelState("s1")
    \/ ClearSession("s1")
    \/ /\ CanRecord("s1")
       /\ \E f \in CsvFiles, analyze \in BOOLEAN, b \in Outcomes :
              V1Run("s1", f, analyze, b)
    \/ /\ CanRecord("s1")
       /\ \E f \in CsvFiles, stores \in BOOLEAN, start \in BOOLEAN, b \in Outcomes :
              V2Run("s1", f, stores, start, b)
    \/ /\ CanRecord("s1")
       /\ \E f \in PdfUploads, env \in Envs, p \in {"ok", "raises"},
             start \in BOOLEAN, b \in Outcomes :
              LegalRun("s1", f, env, p, start, b)

SpecFlow == Init /\ [][NextFlow]_vars

----------------------------------------------------------------------------
(* session.py handle_file_upload: the file is the characters of its name,
   whether pd.read_csv parses it, and the frame it parses to *)

NoFile == [none |-> TRUE, name |-> <<>>, readable |-> FALSE, frame |-> ""]

DataFile(n, r, d) == [none |-> FALSE, name |-> n, readable |-> r, frame |-> d]

\* session.py handle_file_upload; ret tells whether a frame was returned
handle_file_upload(st, f) ==
    IF f.none THEN [st |-> st, ret |-> FALSE]
    ELSE LET file_type == lower(last_piece(f.name))
         IN  IF file_type = <<"c", "s", "v">>
             THEN LET st1 == Set(st, "analysis_mode", "data")
                  IN  IF f.readable
                      THEN [st |-> Set(st1, "df", f.frame), ret |-> TRUE]
                      ELSE [st |-> st1, ret |-> FALSE]
             ELSE IF file_type = <<"p", "d", "f">>
                  THEN [st |-> Set(st, "analysis_mode", "legal"), ret |-> FALSE]
                  ELSE [st |-> st, ret |-> FALSE]

HandleFileUpload(s, f) ==
    LET r == handle_file_upload(ss[s], f)
    IN  /\ ss' = session_store(ss, s, r.st)
        /\ out' = [NoOut EXCEPT !.op = "handle_file_upload", !.src = "session",
                                !.s = s, !.file = f, !.ret = r.ret]
        /\ UNCHANGED <<now, calls>>
        /\ Idle

----------------------------------------------------------------------------
(* SpecUpload: handle_file_upload on one session, between init, clear and
   reset_data_state *)

UploadNames ==
    {<<"a", ".", "c", "s", "v">>, <<"a", ".", "C", "S", "V">>,
     <<"a", ".", "p", "d", "f">>, <<"a", ".", "c", "s", "v", ".", "P", "d", "f">>,
     <<"a", ".", "t", "x", "t">>, <<"a", ".", "p", "d", "f", ".", "c", "s", "v">>,
     <<"a", "c", "s", "v">>, <<"c", "s", "v">>, <<"a", ".">>}

UploadInputs ==
    {NoFile} \cup {DataFile(n, r, d) : n \in UploadNames, r \in BOOLEAN,
                                        d \in {"frame1", "frame2"}}

NextUpload ==
    \/ InitSessionState("s1")
    \/ ClearSession("s1")
    \/ ResetDataState("s1")
    \/ \E f \in UploadInputs : HandleFileUpload("s1", f)

SpecUpload == Init /\ [][NextUpload]_vars

----------------------------------------------------------------------------
(* Properties *)

Last(h) == h[Len(h)]

IsPrefix(a, b) == Len(a) <= Len(b) /\ SubSeq(b, 1, Len(a)) = a

Given(a, p) == a[p] \notin {Missing, None}

NonEmpty(a, p) == a[p] \notin {Missing, None, ""}

\* C1: after add_to_history calls on a fresh session, the sequence
\* display_history iterates is the recorded entries, newest first: as many as
\* calls that returned, the i-th one carrying the stamp, type and fields of
\* the i-th latest call
C1_ListsNewestFirst ==
    out.op = "display_history" =>
        LET log == calls[out.s]
        IN  /\ Len(out.iterated) = Len(log)
            /\ \A i \in 1..Len(log) :
                   LET e == out.iterated[i]
                       c == log[Len(log) + 1 - i]
                   IN  /\ e["timestamp"] = strftime(c.time)
                       /\ Given(c.args, "entry_type") => e["type"] = c.args["entry_type"]
                       /\ \A f \in OptFields :
                              Given(c.args, f) => (f \in DOMAIN e /\ e[f] = c.args[f])

C1_Witness ==
    /\ out.op = "display_history"
    /\ out.src = "app"
    /\ Len(out.iterated) = 3
    /\ out.iterated[1]["type"] = "C"
    /\ out.iterated[2]["type"] = "B"
    /\ out.iterated[3]["type"] = "A"

\* C2 as claimed: in every step of every session-state operation the ledger
\* before the step is a prefix of the ledger after it
C2_AppendOnlyEveryStep ==
    [][\A s \in Sessions : IsPrefix(Hist(ss[s]), Hist(ss'[s]))]_vars

\* C2: in every step of every session-state operation other than
\* clear_session the ledger before the step is a prefix of the ledger after
\* it; clear_session leaves the ledger empty
C2_AppendOnlyUntilCleared ==
    [][/\ out'.op # "clear_session" =>
              \A s \in Sessions : IsPrefix(Hist(ss[s]), Hist(ss'[s]))
       /\ out'.op = "clear_session" => Hist(ss'[out'.s]) = <<>>]_vars

C2_Witness ==
    /\ out.op \in {"reset_model_state", "reset_data_state", "main", "init_session_state"}
    /\ Len(Hist(ss[out.s])) = 2

\* C3: the entry app.py add_to_history stores has an optional field as a key
\* exactly when a non-None value was passed for it; with only entry_type and a
\* file name its keys are timestamp, type and file; with query None and a
\* response it has the response and no query
C3_OptionalKeysIffPassed ==
    (out.op = "add_to_history" /\ out.src = "app") =>
        LET e == Last(Hist(ss[out.s]))
            a == out.args
        IN  /\ \A f \in OptFields : (f \in DOMAIN e) <=> Given(a, f)
            /\ \A f \in OptFields : Given(a, f) => e[f] = a[f]
            /\ ( /\ Given(a, "entry_type")
                 /\ NonEmpty(a, "filename") \/ NonEmpty(a, "file_name")
                 /\ \A f \in OptFields : a[f] = Missing )
               => DOMAIN e = {"timestamp", "type", "file"}
            /\ (~Given(a, "query") /\ Given(a, "response"))
               => ("query" \notin DOMAIN e /\ e["response"] = a["response"])

C3_Witness ==
    /\ out.op = "add_to_history"
    /\ out.src = "app"
    /\ out.args["entry_type"] = "Legal Analysis"
    /\ out.args["file_name"] = "contract.pdf"
    /\ out.args["query"] = None
    /\ out.args["response"] = "x"
    /\ "query" \notin DOMAIN Last(Hist(ss[out.s]))
    /\ Last(Hist(ss[out.s]))["response"] = "x"

\* C4: no entry of any ledger has a key whose value is None
C4_NoNullValues ==
    \A s \in Sessions : \A i \in 1..Len(Hist(ss[s])) :
        \A k \in DOMAIN Hist(ss[s])[i] : Hist(ss[s])[i][k] # None

\* C5: a call of add_to_history (app.py or utils/session.py) that leaves out
\* entry_type or the file name returns normally and appends exactly one
\* entry, from which the file and the optional fields not given are omitted
C5_NeverRejects ==
    [][( /\ out'.op = "add_to_history"
         /\ out'.src \in {"app", "session"}
         /\ \/ out'.args["entry_type"] = Missing
            \/ (out'.args["filename"] = Missing /\ out'.args["file_name"] = Missing) )
       => /\ out'.raised = NoError
          /\ Len(Hist(ss'[out'.s])) = Len(Hist(ss[out'.s])) + 1
          /\ LET e == Last(Hist(ss'[out'.s]))
                 a == out'.args
             IN  /\ (a["filename"] = Missing /\ a["file_name"] = Missing)
                        => "file" \notin DOMAIN e
                 /\ \A f \in OptFields : a[f] = Missing => f \notin DOMAIN e]_vars

\* C6: display_history renders every entry of the ledger and does not raise
C6_ListingNeverRaises ==
    out.listed =>
        /\ out.raised = NoError
        /\ Len(out.rendered) = Len(Hist(ss[out.s]))

\* C7: display_history changes no key of any session state, and on an absent
\* or empty ledger it yields no entries and does not raise
C7_DisplayReadOnly ==
    [][out'.op = "display_history" =>
          /\ ss' = ss
          /\ Hist(ss[out'.s]) = <<>> =>
                 /\ out'.iterated = <<>>
                 /\ out'.rendered = <<>>
                 /\ out'.raised = NoError]_vars

C7_Witness ==
    /\ out.op = "display_history"
    /\ out.src = "app"
    /\ ~Has(ss[out.s], "history")
    /\ out.iterated = <<>>

\* C8: no step changes the entry at a position of the ledger that is still
\* in the ledger after the step
C8_EntriesNeverMutated ==
    [][\A s \in Sessions : \A i \in 1..Len(Hist(ss[s])) :
          i <= Len(Hist(ss'[s])) => Hist(ss'[s])[i] = Hist(ss[s])[i]]_vars

C8_Witness ==
    /\ out.op = "main"
    /\ out.listed
    /\ Len(Hist(ss[out.s])) = 2
    /\ Hist(ss[out.s])[1] # Hist(ss[out.s])[2]

FileArg(a) == py_or(bind_app(a)["filename"], bind_app(a)["file_name"])

OwnEntries(s) ==
    \A i \in 1..Len(Hist(ss[s])) :
        \E j \in 1..Len(calls[s]) :
            /\ Hist(ss[s])[i]["file"] = FileArg(calls[s][j].args)
            /\ Hist(ss[s])[i]["timestamp"] = strftime(calls[s][j].time)

\* C9: a step of one session leaves the state of every other session
\* unchanged, and every entry of a session's ledger was recorded by a call
\* made in that session
C9_SessionsIsolated ==
    [][/\ \A s \in Sessions : s # out'.s => ss'[s] = ss[s]
       /\ \A s \in Sessions : OwnEntries(s)']_vars

C9_Witness ==
    /\ out.op = "display_history"
    /\ out.s = "s2"
    /\ Len(out.iterated) = 1
    /\ Len(Hist(ss["s1"])) = 2

\* C10: when two add_to_history calls on a session without a ledger have both
\* returned, both entries are in the ledger
C10_BothRecorded ==
    (\A t \in Workers : pc[t] = "done") => Len(Hist(ss["s1"])) = Cardinality(Workers)

\* the keys other than K keep their presence and their values over the step
KeepsOthers(s, K) ==
    /\ DOMAIN ss'[s] \ K = DOMAIN ss[s] \ K
    /\ \A k \in DOMAIN ss[s] \ K : ss'[s][k] = ss[s][k]

\* C12: clear_session leaves the session as init_session_state leaves an empty
\* store: empty ledger, page "Home Page", initialized True, button_clicked
\* False, every default key at its default and no other key
C12_ClearIsFreshInit ==
    [][out'.op = "clear_session" =>
         /\ ss'[out'.s] = init_session_state(EmptyState)
         /\ DOMAIN ss'[out'.s] = DefaultKeys
         /\ \A k \in DefaultKeys : ss'[out'.s][k] = Default(k)
         /\ ss'[out'.s]["history"] = <<>>
         /\ ss'[out'.s]["current_page"] = "Home Page"
         /\ ss'[out'.s]["initialized"] = TRUE
         /\ ss'[out'.s]["button_clicked"] = FALSE
         /\ ~Has(ss'[out'.s], "welcome_message")
         /\ ~Has(ss'[out'.s], "lottie")]_vars

\* a clear_session that ran on a session with two recorded entries
C12_Witness ==
    /\ out.op = "clear_session"
    /\ Len(calls[out.s]) = 2
    /\ Hist(ss[out.s]) = <<>>

\* C13: reset_model_state removes exactly the six model keys and
\* reset_data_state exactly the seven data-frame keys, present or not; every
\* other key, the ledger and the page included, keeps its value
C13_ResetsRemoveOnlyTheirKeys ==
    [][/\ out'.op = "reset_model_state" =>
            /\ DOMAIN ss'[out'.s] = DOMAIN ss[out'.s] \
                   {"model_list", "model1", "model2", "model3",
                    "start_training", "button_clicked"}
            /\ \A k \in DOMAIN ss'[out'.s] : ss'[out'.s][k] = ss[out'.s][k]
            /\ out'.raised = NoError
       /\ out'.op = "reset_data_state" =>
            /\ DOMAIN ss'[out'.s] = DOMAIN ss[out'.s] \
                   {"df", "df_origin", "filled_df", "encoded_df",
                    "df_cleaned1", "df_cleaned2", "df_pca"}
            /\ \A k \in DOMAIN ss'[out'.s] : ss'[out'.s][k] = ss[out'.s][k]
            /\ out'.raised = NoError]_vars

\* a reset_model_state on a session that has a ledger entry, a page other than
\* the home page and the data-frame keys
C13_Witness ==
    /\ out.op = "reset_model_state"
    /\ Len(Hist(ss[out.s])) = 1
    /\ Has(ss[out.s], "current_page")
    /\ ss[out.s]["current_page"] = "History"
    /\ Has(ss[out.s], "df")
    /\ ~Has(ss[out.s], "button_clicked")

\* C14: init_session_state adds each absent default key with its default and
\* leaves every present key as it is, so running it again changes nothing;
\* add_to_history makes the ledger only when it is absent: the ledger after
\* the call is one longer than before
C14_LazyInitNeverOverwrites ==
    [][/\ out'.op = "init_session_state" =>
            /\ DOMAIN ss'[out'.s] = DOMAIN ss[out'.s] \cup DefaultKeys
            /\ \A k \in DOMAIN ss[out'.s] : ss'[out'.s][k] = ss[out'.s][k]
            /\ \A k \in DefaultKeys \ DOMAIN ss[out'.s] :
                   ss'[out'.s][k] = Default(k)
            /\ init_session_state(ss'[out'.s]) = ss'[out'.s]
       /\ (out'.op = "add_to_history" /\ out'.raised = NoError) =>
            /\ Len(Hist(ss'[out'.s])) = Len(Hist(ss[out'.s])) + 1
            /\ IsPrefix(Hist(ss[out'.s]), Hist(ss'[out'.s]))]_vars

\* an init_session_state on a session whose keys hold other values than the
\* defaults
C14_Witness ==
    /\ out.op = "init_session_state"
    /\ Len(Hist(ss[out.s])) = 2
    /\ ss[out.s]["current_page"] = "History"
    /\ ss[out.s]["initialized"] = FALSE
    /\ Has(ss[out.s], "welcome_message")

\* C15: an add_to_history call that returns appends one entry stamped with the
\* clock to the ledger and leaves every other key of the session as it was;
\* a call that is rejected leaves the whole session as it was
C15_OnlyHistoryChanges ==
    [][out'.op = "add_to_history" =>
         IF out'.raised = NoError
         THEN /\ KeepsOthers(out'.s, {"history"})
              /\ Has(ss'[out'.s], "history")
              /\ Len(Hist(ss'[out'.s])) = Len(Hist(ss[out'.s])) + 1
              /\ SubSeq(Hist(ss'[out'.s]), 1, Len(Hist(ss[out'.s])))
                     = Hist(ss[out'.s])
              /\ Last(Hist(ss'[out'.s]))["timestamp"] = strftime(now)
         ELSE ss'[out'.s] = ss[out'.s]]_vars

\* a session.py add_to_history that returned at clock 1 on an initialised
\* session with an earlier entry
C15_Witness ==
    /\ out.op = "add_to_history"
    /\ out.src = "session"
    /\ out.raised = NoError
    /\ now = 1
    /\ Has(ss[out.s], "current_page")
    /\ Len(Hist(ss[out.s])) = 2
    /\ Last(Hist(ss[out.s]))["timestamp"] = "1"
    /\ Hist(ss[out.s])[1]["timestamp"] = "0"

\* the welcome message is stored in every session whose initialized is False
WelcomeStored ==
    \A s \in Sessions :
        (Has(ss[s], "initialized") /\ ss[s]["initialized"] = FALSE)
            => Has(ss[s], "welcome_message")

\* C20: whenever initialized is False the welcome message is present; a home
\* page render never raises, streams the message when none is stored (the
\* first render since the session started or was cleared) and writes the
\* stored one otherwise
C20_WelcomePresent ==
    [][/\ WelcomeStored'
       /\ (out'.op = "main" /\ out'.page = "Home Page") =>
            /\ out'.raised = NoError
            /\ out'.welcome \in {"streamed", "static"}
            /\ out'.welcome = "streamed" <=> ~Has(ss[out'.s], "welcome_message")]_vars

\* a home page render that streamed the message again after a clear_session
\* of a session that had recorded an entry
C20_Witness ==
    /\ out.op = "main"
    /\ out.page = "Home Page"
    /\ out.welcome = "streamed"
    /\ Len(calls[out.s]) = 1
    /\ Hist(ss[out.s]) = <<>>

\* the last dot-separated piece of the name is pdf in any letter case
HasPdfExtension(n) ==
    /\ Len(n) >= 3
    /\ lower(SubSeq(n, Len(n) - 2, Len(n))) = <<"p", "d", "f">>
    /\ (Len(n) = 3 \/ n[Len(n) - 3] = ".")

\* C16: validate_pdf returns True exactly when the file is not None, its
\* extension is pdf in any letter case and its size is less than 10MB
C16_ValidIffPdfUnderLimit ==
    out.op = "validate_pdf" =>
        (out.ret <=> /\ ~out.file.none
                     /\ HasPdfExtension(out.file.name)
                     /\ out.file.size < 10 * 1024 * 1024)

\* what the code decides: a size of exactly 10MB is accepted
C16_ValidIffPdfUpToLimit ==
    out.op = "validate_pdf" =>
        (out.ret <=> /\ ~out.file.none
                     /\ HasPdfExtension(out.file.name)
                     /\ out.file.size <= 10 * 1024 * 1024)

\* the step is a run of the script that ended on the given page
RunOn(page) == out'.op = "main" /\ out'.page = page

SameLedger == Hist(ss'[out'.s]) = Hist(ss[out'.s])

C11_RecordedAfterBackendOutsideV2 ==
    [][((RunOn("AI Data Analysis V1") \/ RunOn("Legal Analysis"))
            /\ out'.backend # "ok") => SameLedger]_vars

\* a non-empty file that was read is in the uploader of the run
FileUploaded(f) == ~f.none /\ f.size > 0 /\ f.readable

\* C17: a run of the V2 page dispatches a pipeline only with a non-empty,
\* successfully read file in its uploader and is_file_empty False; a run
\* without such a file dispatches nothing and appends nothing
C17_DispatchOnlyWithFile ==
    [][RunOn("AI Data Analysis V2") =>
         /\ out'.dispatched =>
              (FileUploaded(out'.file) /\ ~is_file_empty(ss'[out'.s]))
         /\ ~FileUploaded(out'.file) => SameLedger]_vars

\* C18: a run of the V2 page without a click on Start Analysis dispatches no
\* pipeline and appends no entry
C18_OneDispatchPerClick ==
    [][(RunOn("AI Data Analysis V2") /\ ~out'.start) =>
         (~out'.dispatched /\ SameLedger)]_vars

\* C19: when setup_qdrant returned True in a run of the Legal Analysis page,
\* vector_db holds a client
C19_TrueOnlyWithClient ==
    (out.op = "main" /\ out.page = "Legal Analysis" /\ out.ret) =>
        /\ Has(ss[out.s], "vector_db")
        /\ ss[out.s]["vector_db"] # None

\* the last dot-separated piece of the name is e in any letter case
HasExtension(n, e) ==
    /\ Len(n) >= Len(e)
    /\ lower(SubSeq(n, Len(n) - Len(e) + 1, Len(n))) = e
    /\ (Len(n) = Len(e) \/ n[Len(n) - Len(e)] = ".")

\* the key is present or absent after the step as before, with its value
KeepsKey(s, k) ==
    /\ Has(ss'[s], k) <=> Has(ss[s], k)
    /\ Has(ss[s], k) => ss'[s][k] = ss[s][k]

IsCsv(f) == ~f.none /\ HasExtension(f.name, <<"c", "s", "v">>)

IsPdf(f) == ~f.none /\ HasExtension(f.name, <<"p", "d", "f">>)

\* C21: handle_file_upload on None, on an unsupported extension or on a CSV
\* that does not parse leaves analysis_mode and df as they were; on a CSV
\* that parses it sets analysis_mode to 'data' and df to the frame; on a pdf
\* it sets analysis_mode to 'legal' and leaves df
C21_FailedUploadChangesNothing ==
    [][out'.op = "handle_file_upload" =>
         LET f == out'.file
             s == out'.s
         IN  /\ (f.none \/ (~IsCsv(f) /\ ~IsPdf(f)) \/ (IsCsv(f) /\ ~f.readable))
                   => (KeepsKey(s, "analysis_mode") /\ KeepsKey(s, "df")
                       /\ ~out'.ret)
             /\ (IsCsv(f) /\ f.readable)
                   => /\ ss'[s]["analysis_mode"] = "data"
                      /\ ss'[s]["df"] = f.frame
                      /\ out'.ret
             /\ IsPdf(f)
                   => /\ ss'[s]["analysis_mode"] = "legal"
                      /\ KeepsKey(s, "df")
                      /\ ~out'.ret]_vars

\* what the code keeps of it: every key but analysis_mode and df is left
\* alone; df changes only on a CSV that parses; analysis_mode is 'data' after
\* every CSV, parsed or not, 'legal' after a pdf and unchanged otherwise
C21_ModeSetBeforeParsing ==
    [][out'.op = "handle_file_upload" =>
         LET f == out'.file
             s == out'.s
         IN  /\ KeepsOthers(s, {"analysis_mode", "df"})
             /\ IF IsCsv(f) /\ f.readable
                THEN ss'[s]["df"] = f.frame /\ out'.ret
                ELSE KeepsKey(s, "df") /\ ~out'.ret
             /\ IF IsCsv(f) THEN ss'[s]["analysis_mode"] = "data"
                ELSE IF IsPdf(f) THEN ss'[s]["analysis_mode"] = "legal"
                ELSE KeepsKey(s, "analysis_mode")]_vars

====
